---------------------------- MODULE Spec2Model ----------------------------
(***************************************************************************)
(* Model of the grocery scheduler (src/server.py): the slot generator      *)
(* SchedulingService.generate_schedule_suggestions, the schedule           *)
(* generation handler generate_weekly_schedule with its three database     *)
(* round trips, the preference upsert and the approval handler.            *)
(*                                                                         *)
(* Time is counted in minutes from a Monday 00:00 (minute 0).  A           *)
(* time-of-day string "HH:MM" is the pair <<HH, MM>>.  Confidence scores   *)
(* are in tenths (8 for 0.8, 6 for 0.6).  A uuid4 is the pair of the       *)
(* number of the generation that built the object and the position of the  *)
(* object in construction order.                                           *)
(***************************************************************************)
EXTENDS Integers, Sequences, FiniteSets, TLC

VARIABLES
    calendar,          \* MOCK_CALENDAR_EVENTS
    preferences,       \* db.preferences, the document of the user (or NoDoc)
    weekly_schedules,  \* db.weekly_schedules, in insertion order
    now,               \* datetime.now(), as the number of the current week
    uuid,              \* number of WeeklySchedule objects built so far
    pc,                \* position of each request in generate_weekly_schedule
    local,             \* the locals of each request
    approval           \* the last call of approve_suggestion and its outcome

vars == <<calendar, preferences, weekly_schedules, now, uuid, pc, local, approval>>

----------------------------------------------------------------------------
(* Bounds of the model *)

MaxWindows == 2
MaxEvents == 2
MaxGen == 2
MaxWeek == 1

(* Constants of the program *)

NearbyCount == 2
TopN == 5
TravelTime == 15
SlotStepMinutes == 60
DaysPerWeek == 7
MinutesPerDay == 1440

User == "u1"
Requests == {1, 2}

----------------------------------------------------------------------------
(* Domain types and inputs *)

DayOfWeek == <<"monday", "tuesday", "wednesday", "thursday", "friday",
               "saturday", "sunday">>

MOCK_GROCERY_STORES == <<1, 2, 3, 4>>

At(day, h, m) == (day - 1) * MinutesPerDay + h * 60 + m

\* The calendar events a user may have: Saturday 09:30-10:00; Monday
\* 14:30-15:30; one that starts before the week and ends Monday 10:00; one
\* that starts at the first instant of the next week; Sunday 13:00-18:00;
\* Saturday 09:30-09:59.
EventPool ==
    { [id |-> 1, start_time |-> At(6, 9, 30), end_time |-> At(6, 10, 0)],
      [id |-> 2, start_time |-> At(1, 14, 30), end_time |-> At(1, 15, 30)],
      [id |-> 3, start_time |-> At(1, 0, 0) - 60, end_time |-> At(1, 10, 0)],
      [id |-> 4, start_time |-> At(8, 0, 0), end_time |-> At(8, 1, 0)],
      [id |-> 5, start_time |-> At(7, 13, 0), end_time |-> At(7, 18, 0)],
      [id |-> 6, start_time |-> At(6, 9, 30), end_time |-> At(6, 9, 59)] }

Calendars == {c \in SUBSET EventPool : Cardinality(c) <= MaxEvents}

WindowPool ==
    { [start_time |-> <<9, 0>>, end_time |-> <<11, 0>>, days |-> {"saturday"}],
      [start_time |-> <<9, 0>>, end_time |-> <<10, 0>>, days |-> {"monday", "saturday"}],
      [start_time |-> <<14, 0>>, end_time |-> <<17, 0>>, days |-> {"monday", "sunday"}],
      [start_time |-> <<9, 30>>, end_time |-> <<10, 15>>, days |-> {"tuesday"}] }

Durations == {-30, 0, 30, 60, 90}

WindowLists == UNION {[1..n -> WindowPool] : n \in 0..MaxWindows}

Profiles ==
    { [user_id |-> User, shopping_duration_minutes |-> d, preferred_hours |-> w] :
        d \in Durations, w \in WindowLists }

NoDoc == [user_id |-> "none"]

----------------------------------------------------------------------------
(* SchedulingService *)

strptime(hhmm) == hhmm[1] * 60 + hhmm[2]

DayName(t) == DayOfWeek[((t \div MinutesPerDay) % DaysPerWeek) + 1]

DateOf(t) == (t \div MinutesPerDay) * MinutesPerDay

calculate_travel_time(store) == TravelTime

find_nearby_stores == SubSeq(MOCK_GROCERY_STORES, 1, NearbyCount)

get_calendar_events(start_date, end_date) ==
    {event \in calendar : start_date <= event.start_time /\ event.start_time <= end_date}

\* Conflicts without the clause for an event that spans the slot.
ConflictsNoSpan(events, slot_start, slot_end_time) ==
    {e \in events :
        \/ (slot_start <= e.start_time /\ e.start_time <= slot_end_time)
        \/ (slot_start <= e.end_time /\ e.end_time <= slot_end_time)}

\* Conflicts with an event that ends when the slot starts let through.
ConflictsOpenStart(events, slot_start, slot_end_time) ==
    {e \in events :
        \/ (slot_start <= e.start_time /\ e.start_time <= slot_end_time)
        \/ (slot_start < e.end_time /\ e.end_time <= slot_end_time)
        \/ (e.start_time <= slot_start /\ e.end_time >= slot_end_time)}

Conflicts(events, slot_start, slot_end_time) ==
    {e \in events :
        \/ (slot_start <= e.start_time /\ e.start_time <= slot_end_time)
        \/ (slot_start <= e.end_time /\ e.end_time <= slot_end_time)
        \/ (e.start_time <= slot_start /\ e.end_time >= slot_end_time)}

Confidence(day_name) == IF day_name \in {"saturday", "sunday"} THEN 8 ELSE 6

\* The suggestions of one free slot, one per nearby store.  win is the
\* position of the window in preferences.preferred_hours: it is not a field
\* of ScheduleSuggestion and is dropped when the suggestions are numbered.
SlotSuggestions(slot_start, duration, current_date, win) ==
    [i \in 1..Len(find_nearby_stores) |->
        [suggested_time |-> slot_start,
         duration_minutes |-> duration,
         store |-> find_nearby_stores[i],
         reason |-> DayName(current_date),
         travel_time_minutes |-> calculate_travel_time(find_nearby_stores[i]),
         confidence_score |-> Confidence(DayName(current_date)),
         win |-> win]]

\* The loop condition with a slot that ends at the end of the window left out.
SlotFitsStrict(current_time, duration, slot_end) == current_time + duration < slot_end

\* The condition of the while loop.
SlotFits(current_time, duration, slot_end) == current_time + duration <= slot_end

RECURSIVE WhileSlots(_, _, _, _, _, _)
WhileSlots(current_time, slot_end, duration, events, current_date, win) ==
    IF SlotFits(current_time, duration, slot_end)
    THEN (IF Conflicts(events, current_time, current_time + duration) = {}
          THEN SlotSuggestions(current_time, duration, current_date, win)
          ELSE <<>>)
         \o WhileSlots(current_time + SlotStepMinutes, slot_end, duration,
                       events, current_date, win)
    ELSE <<>>

RECURSIVE ForWindows(_, _, _, _)
ForWindows(prefs, win, current_date, events) ==
    IF win > Len(prefs.preferred_hours) THEN <<>>
    ELSE LET pref_hours == prefs.preferred_hours[win]
         IN  (IF DayName(current_date) \in pref_hours.days
              THEN WhileSlots(DateOf(current_date) + strptime(pref_hours.start_time),
                              DateOf(current_date) + strptime(pref_hours.end_time),
                              prefs.shopping_duration_minutes, events,
                              current_date, win)
              ELSE <<>>)
             \o ForWindows(prefs, win + 1, current_date, events)

RECURSIVE ForDays(_, _, _, _)
ForDays(prefs, week_start, day_offset, events) ==
    IF day_offset >= DaysPerWeek THEN <<>>
    ELSE ForWindows(prefs, 1, week_start + day_offset * MinutesPerDay, events)
         \o ForDays(prefs, week_start, day_offset + 1, events)

\* sorted(suggestions, key=confidence_score, reverse=True): a stable sort,
\* as an insertion of each element behind the ones that do not rank lower.
\* An unstable order: an element goes in front of the ones of equal score.
StaysBeforeStrict(a, x) == a.confidence_score > x.confidence_score

StaysBefore(a, x) == a.confidence_score >= x.confidence_score

RECURSIVE InsertByScore(_, _)
InsertByScore(sorted, x) ==
    IF sorted = <<>> THEN <<x>>
    ELSE IF StaysBefore(Head(sorted), x)
         THEN <<Head(sorted)>> \o InsertByScore(Tail(sorted), x)
         ELSE <<x>> \o sorted

RECURSIVE SortedByScore(_)
SortedByScore(s) ==
    IF s = <<>> THEN <<>>
    ELSE InsertByScore(SortedByScore(SubSeq(s, 1, Len(s) - 1)), s[Len(s)])

\* The return statement without its slice.
AllSuggestions(sorted) == sorted

TopSuggestions(sorted) ==
    SubSeq(sorted, 1, IF Len(sorted) < TopN THEN Len(sorted) ELSE TopN)

\* ScheduleSuggestion objects get their uuid when they are built, that is in
\* the order of the scan.
Numbered(found, n) ==
    [i \in 1..Len(found) |->
        [id |-> <<n, i>>,
         suggested_time |-> found[i].suggested_time,
         duration_minutes |-> found[i].duration_minutes,
         store |-> found[i].store,
         reason |-> found[i].reason,
         travel_time_minutes |-> found[i].travel_time_minutes,
         confidence_score |-> found[i].confidence_score]]

generate_schedule_suggestions(found, n) ==
    TopSuggestions(SortedByScore(Numbered(found, n)))

----------------------------------------------------------------------------
(* Persistence *)

NoId == <<>>
UnknownId == <<0, 0>>

\* datetime.isoformat(): the date and the time of day, as stored by
\* prepare_for_mongo and as used in the filters on week_start.
isoformat(t) == <<"iso", t \div MinutesPerDay, t % MinutesPerDay>>

WeekStart(today) == today * DaysPerWeek * MinutesPerDay

WeeklySchedule(n, user_id, week_start, suggestions) ==
    [id |-> <<n, 0>>,
     user_id |-> user_id,
     week_start |-> isoformat(week_start),
     suggestions |-> suggestions,
     approved_suggestion_id |-> NoId,
     status |-> "pending"]

NoSchedule == WeeklySchedule(0, "none", 0, <<>>)

Idle(status) ==
    [user_prefs |-> NoDoc, week_start |-> 0, events |-> {}, found |-> <<>>,
     suggestions |-> <<>>, schedule |-> NoSchedule, status |-> status]

NoApproval ==
    [schedule_id |-> NoId, suggestion_id |-> NoId, matched_count |-> 0,
     modified_count |-> 0, status |-> "none"]

InFlight == Cardinality({r \in Requests : pc[r] = "found"})

\* delete_many: the documents that stay.
DeleteMany(coll, user_id, week_start) ==
    SelectSeq(coll, LAMBDA d : ~(d.user_id = user_id /\ d.week_start = week_start))

\* update_one with $set: the position of the first document whose id matches
\* (0 when there is none).
FirstMatch(coll, schedule_id) ==
    IF \E i \in 1..Len(coll) : coll[i].id = schedule_id
    THEN CHOOSE i \in 1..Len(coll) :
            /\ coll[i].id = schedule_id
            /\ \A j \in 1..(i - 1) : coll[j].id # schedule_id
    ELSE 0

Approved(doc, suggestion_id) ==
    [doc EXCEPT !.approved_suggestion_id = suggestion_id, !.status = "approved"]

----------------------------------------------------------------------------
(* Handlers *)

\* POST /preferences: the document of the user is inserted or overwritten.
create_preferences(prefs) ==
    /\ preferences' = prefs
    /\ UNCHANGED <<calendar, weekly_schedules, now, uuid, pc, local, approval>>

\* POST /schedule/generate, up to the answer of db.preferences.find_one.
GenFind(r) ==
    /\ pc[r] = "idle"
    /\ uuid + InFlight < MaxGen
    /\ IF preferences = NoDoc
       THEN /\ local' = [local EXCEPT ![r] = Idle("404")]
            /\ pc' = pc
       ELSE /\ local' = [local EXCEPT ![r] = [Idle("none") EXCEPT !.user_prefs = preferences]]
            /\ pc' = [pc EXCEPT ![r] = "found"]
    /\ UNCHANGED <<calendar, preferences, weekly_schedules, now, uuid, approval>>

\* From there to the answer of db.weekly_schedules.delete_many: the week start,
\* the suggestions, the WeeklySchedule object and the deletion.
GenDelete(r) ==
    /\ pc[r] = "found"
    /\ LET user_prefs == local[r].user_prefs
           week_start == WeekStart(now)
           week_end == week_start + DaysPerWeek * MinutesPerDay
           events == get_calendar_events(week_start, week_end)
           found == ForDays(user_prefs, week_start, 0, events)
           suggestions == generate_schedule_suggestions(found, uuid + 1)
           schedule == WeeklySchedule(uuid + 1, user_prefs.user_id, week_start, suggestions)
       IN  /\ local' = [local EXCEPT ![r] =
                          [user_prefs |-> user_prefs, week_start |-> week_start,
                           events |-> events, found |-> found,
                           suggestions |-> suggestions, schedule |-> schedule,
                           status |-> "none"]]
           /\ weekly_schedules' =
                 DeleteMany(weekly_schedules, user_prefs.user_id, isoformat(week_start))
    /\ uuid' = uuid + 1
    /\ pc' = [pc EXCEPT ![r] = "deleted"]
    /\ UNCHANGED <<calendar, preferences, now, approval>>

\* From there to the answer of db.weekly_schedules.insert_one, and the reply.
GenInsert(r) ==
    /\ pc[r] = "deleted"
    /\ weekly_schedules' = Append(weekly_schedules, local[r].schedule)
    /\ local' = [local EXCEPT ![r] = Idle("200")]
    /\ pc' = [pc EXCEPT ![r] = "idle"]
    /\ UNCHANGED <<calendar, preferences, now, uuid, approval>>

\* POST /schedule/approve: update_one reports a document as modified only
\* when the $set changed one of its fields.
approve_suggestion(schedule_id, suggestion_id) ==
    LET i == FirstMatch(weekly_schedules, schedule_id)
        after == IF i = 0 THEN weekly_schedules
                 ELSE [weekly_schedules EXCEPT ![i] = Approved(@, suggestion_id)]
        modified_count == IF after = weekly_schedules THEN 0 ELSE 1
    IN  /\ weekly_schedules' = after
        /\ approval' = [schedule_id |-> schedule_id, suggestion_id |-> suggestion_id,
                        matched_count |-> IF i = 0 THEN 0 ELSE 1,
                        modified_count |-> modified_count,
                        status |-> IF modified_count = 0 THEN "404" ELSE "200"]
        /\ UNCHANGED <<calendar, preferences, now, uuid, pc, local>>

\* The clock passes into the next week.
Tick ==
    /\ now < MaxWeek
    /\ now' = now + 1
    /\ UNCHANGED <<calendar, preferences, weekly_schedules, uuid, pc, local, approval>>

----------------------------------------------------------------------------
(* Specifications *)

ScheduleIds == {<<n, 0>> : n \in 1..MaxGen}

SuggestionIds ==
    {UnknownId} \cup
    UNION {{weekly_schedules[i].suggestions[j].id :
                j \in 1..Len(weekly_schedules[i].suggestions)} :
            i \in 1..Len(weekly_schedules)}

ServiceProfiles ==
    { [user_id |-> User, shopping_duration_minutes |-> 60,
       preferred_hours |-> <<[start_time |-> <<9, 0>>, end_time |-> <<11, 0>>,
                              days |-> {"saturday"}]>>],
      [user_id |-> User, shopping_duration_minutes |-> 90,
       preferred_hours |-> <<[start_time |-> <<9, 0>>, end_time |-> <<10, 0>>,
                              days |-> {"monday", "saturday"}]>>] }

InitCommon ==
    /\ weekly_schedules = <<>>
    /\ now = 0
    /\ uuid = 0
    /\ pc = [r \in Requests |-> "idle"]
    /\ local = [r \in Requests |-> Idle("none")]
    /\ approval = NoApproval

\* The service: no preferences yet, two requests that may overlap.
Init ==
    /\ calendar \in {c \in Calendars : Cardinality(c) <= 1 /\ \A e \in c : e.id = 1}
    /\ preferences = NoDoc
    /\ InitCommon

Next ==
    \/ \E prefs \in ServiceProfiles : create_preferences(prefs)
    \/ \E r \in Requests : GenFind(r)
    \/ \E r \in Requests : GenDelete(r)
    \/ \E r \in Requests : GenInsert(r)
    \/ \E schedule_id \in ScheduleIds, suggestion_id \in SuggestionIds :
          approve_suggestion(schedule_id, suggestion_id)
    \/ Tick

Spec == Init /\ [][Next]_vars

\* The generator: one generation request for every profile and calendar.
InitGen ==
    /\ calendar \in Calendars
    /\ preferences \in Profiles
    /\ InitCommon

NextGen ==
    \/ (uuid = 0 /\ GenFind(1))
    \/ GenDelete(1)
    \/ GenInsert(1)

SpecGen == InitGen /\ [][NextGen]_vars

----------------------------------------------------------------------------
(* What the claims speak of *)

\* The locals of a request are those of a finished generator run while the
\* request waits for delete_many.
Generated(r) == pc[r] = "deleted"

\* The conflict predicate of the specification, written out.
ConflictsWith(e, slot_start, slot_end) ==
    \/ (slot_start <= e.start_time /\ e.start_time <= slot_end)
    \/ (slot_start <= e.end_time /\ e.end_time <= slot_end)
    \/ (e.start_time <= slot_start /\ e.end_time >= slot_end)

\* The candidate slots of a profile in a week: for every day, every window
\* listed for that day and every whole number of hours k, the slot that
\* starts k hours after the start of the window, if it ends inside it.
Candidates(prefs, week_start) ==
    LET all == [day_offset : 0..(DaysPerWeek - 1),
                win : 1..Len(prefs.preferred_hours),
                k : 0..23]
        DayStart(c) == week_start + c.day_offset * MinutesPerDay
        Window(c) == prefs.preferred_hours[c.win]
        Start(c) == DayStart(c) + Window(c).start_time[1] * 60
                      + Window(c).start_time[2] + c.k * 60
    IN  { [day_offset |-> c.day_offset, win |-> c.win, start |-> Start(c)] :
            c \in { c \in all :
                      /\ DayOfWeek[c.day_offset + 1] \in Window(c).days
                      /\ Start(c) + prefs.shopping_duration_minutes
                           <= DayStart(c) + Window(c).end_time[1] * 60
                                + Window(c).end_time[2] } }

Free(c, duration, events) ==
    \A e \in events : ~ConflictsWith(e, c.start, c.start + duration)

DayIndex(name) == CHOOSE d \in 1..DaysPerWeek : DayOfWeek[d] = name

\* Order of discovery: day, then window, then start, then store.
Precedes(a, b) ==
    \/ DayIndex(a.reason) < DayIndex(b.reason)
    \/ /\ DayIndex(a.reason) = DayIndex(b.reason)
       /\ \/ a.win < b.win
          \/ /\ a.win = b.win
             /\ \/ a.suggested_time < b.suggested_time
                \/ /\ a.suggested_time = b.suggested_time
                   /\ a.store < b.store

Saturday0911 ==
    [start_time |-> <<9, 0>>, end_time |-> <<11, 0>>, days |-> {"saturday"}]

Scenario(r, event) ==
    /\ Generated(r)
    /\ local[r].week_start = 0
    /\ local[r].user_prefs.shopping_duration_minutes = 60
    /\ local[r].user_prefs.preferred_hours = <<Saturday0911>>
    /\ calendar = {event}

SaturdayEvent(id, h, m) == [id |-> id, start_time |-> At(6, 9, 30), end_time |-> At(6, h, m)]

\* One suggestion per nearby store at Saturday 10:00, confidence 0.8.
OnlyTenOClock(s) ==
    /\ Len(s) = NearbyCount
    /\ \A i \in 1..Len(s) :
          /\ s[i].suggested_time = At(6, 10, 0)
          /\ s[i].confidence_score = 8
          /\ s[i].store = MOCK_GROCERY_STORES[i]

----------------------------------------------------------------------------
(* Claims *)

\* C1: no suggestion the generator returns, and no suggestion it emits before
\* sorting, occupies a slot [suggested_time, suggested_time + duration] that
\* conflicts with one of the events it fetched: a slot with a conflicting
\* event yields no suggestion for any store.
C1_NoConflictingSuggestion ==
    \A r \in Requests : Generated(r) =>
        /\ \A i \in 1..Len(local[r].suggestions) : \A e \in local[r].events :
              ~ConflictsWith(e, local[r].suggestions[i].suggested_time,
                             local[r].suggestions[i].suggested_time
                               + local[r].suggestions[i].duration_minutes)
        /\ \A i \in 1..Len(local[r].found) : \A e \in local[r].events :
              ~ConflictsWith(e, local[r].found[i].suggested_time,
                             local[r].found[i].suggested_time
                               + local[r].found[i].duration_minutes)

\* A run with positive duration in which a candidate slot was dropped for an
\* event that spans it, and other slots were returned.
C1_Witness ==
    \E r \in Requests :
        /\ Generated(r)
        /\ local[r].user_prefs.shopping_duration_minutes > 0
        /\ Len(local[r].suggestions) > 0
        /\ \E c \in Candidates(local[r].user_prefs, local[r].week_start) :
              \E e \in local[r].events :
                 /\ e.start_time < c.start
                 /\ e.end_time > c.start + local[r].user_prefs.shopping_duration_minutes

\* C2 as stated: with the window Saturday 09:00-11:00, duration 60 and the
\* event Saturday 09:30-10:00, the result is one suggestion per nearby store
\* at 10:00 with confidence 0.8.
C2_AsStated ==
    \A r \in Requests : Scenario(r, SaturdayEvent(1, 10, 0)) =>
        OnlyTenOClock(local[r].suggestions)

\* C2 as amended: in that scenario both candidates are dropped, the 10:00
\* slot because the event ends at the instant the slot starts, and the result
\* is empty; with the event ending at 09:59 instead the result is one
\* suggestion per nearby store at 10:00 with confidence 0.8.
C2_TouchingEventConflicts ==
    \A r \in Requests :
        /\ Scenario(r, SaturdayEvent(1, 10, 0)) =>
              /\ local[r].found = <<>>
              /\ local[r].suggestions = <<>>
        /\ Scenario(r, SaturdayEvent(6, 9, 59)) =>
              OnlyTenOClock(local[r].suggestions)

\* The scenario of C2 has run with the event that ends at 10:00.
C2_Witness ==
    \E r \in Requests :
        /\ Scenario(r, SaturdayEvent(1, 10, 0))
        /\ local[r].events = {SaturdayEvent(1, 10, 0)}

\* C3: generation never gets past the generator with a duration that is zero
\* or negative, and no stored or returned suggestion has such a duration.
C3_RejectsNonPositiveDuration ==
    /\ \A r \in Requests : Generated(r) =>
          /\ local[r].user_prefs.shopping_duration_minutes > 0
          /\ \A i \in 1..Len(local[r].suggestions) :
                local[r].suggestions[i].duration_minutes > 0
    /\ \A i \in 1..Len(weekly_schedules) :
          \A j \in 1..Len(weekly_schedules[i].suggestions) :
             weekly_schedules[i].suggestions[j].duration_minutes > 0

\* C4: the result is the first five of the emitted suggestions in descending
\* order of confidence, suggestions of equal confidence in their order of
\* discovery, which is by day, then window, then start, then store.
C4_StableDescending ==
    \A r \in Requests : Generated(r) =>
        LET s == local[r].suggestions
            f == local[r].found
            Pos(i) == s[i].id[2]
        IN  /\ Len(s) = (IF Len(f) < 5 THEN Len(f) ELSE 5)
            /\ \A a, b \in 1..Len(f) : a < b => Precedes(f[a], f[b])
            /\ \A i \in 1..Len(s) :
                  /\ Pos(i) \in 1..Len(f)
                  /\ s[i].suggested_time = f[Pos(i)].suggested_time
                  /\ s[i].store = f[Pos(i)].store
                  /\ s[i].confidence_score = f[Pos(i)].confidence_score
            /\ \A i, j \in 1..Len(s) : i < j =>
                  \/ s[i].confidence_score > s[j].confidence_score
                  \/ /\ s[i].confidence_score = s[j].confidence_score
                     /\ Pos(i) < Pos(j)
            /\ \A k \in 1..Len(f) : (\A i \in 1..Len(s) : Pos(i) # k) =>
                  \A i \in 1..Len(s) :
                     \/ s[i].confidence_score > f[k].confidence_score
                     \/ /\ s[i].confidence_score = f[k].confidence_score
                        /\ Pos(i) < k

\* More than five suggestions were found, a weekday one first, and the result
\* holds weekend ones in front of weekday ones, with ties.
C4_Witness ==
    \E r \in Requests :
        /\ Generated(r)
        /\ Len(local[r].found) > 5
        /\ local[r].found[1].confidence_score = 6
        /\ local[r].suggestions[1].confidence_score = 8
        /\ local[r].suggestions[2].confidence_score = 8
        /\ local[r].suggestions[4].confidence_score = 6
        /\ local[r].suggestions[5].confidence_score = 6

\* C5: the generator returns at most five suggestions, and every stored
\* WeeklySchedule holds at most five.
C5_AtMostFive ==
    /\ \A r \in Requests : Generated(r) =>
          /\ Len(local[r].suggestions) <= 5
          /\ Len(local[r].schedule.suggestions) <= 5
    /\ \A i \in 1..Len(weekly_schedules) : Len(weekly_schedules[i].suggestions) <= 5

\* A stored schedule with five suggestions, one of them the seventh or a
\* later one the scan found.
C5_Witness ==
    \E i \in 1..Len(weekly_schedules) :
        /\ Len(weekly_schedules[i].suggestions) = 5
        /\ \E j \in 1..5 : weekly_schedules[i].suggestions[j].id[2] > 6

\* C6: the store never holds two WeeklySchedule records of one user and week.
C6_OneRecordPerUserAndWeek ==
    \A i, j \in 1..Len(weekly_schedules) :
        (/\ i # j
         /\ weekly_schedules[i].user_id = weekly_schedules[j].user_id
         /\ weekly_schedules[i].week_start = weekly_schedules[j].week_start) => FALSE

\* C7: an approval fails with NotFound exactly when no record had the given
\* schedule identifier; when one had, it succeeds, also when it is repeated.
C7_NotFoundOnlyWhenMissing ==
    approval.status # "none" =>
        /\ approval.matched_count = 0 => approval.status = "404"
        /\ approval.matched_count = 1 => approval.status = "200"

\* C8: an approved WeeklySchedule names one of its own suggestions, and a
\* pending one names none.
C8_ApprovedIsOwnSuggestion ==
    \A i \in 1..Len(weekly_schedules) :
        LET d == weekly_schedules[i]
        IN  /\ d.status \in {"pending", "approved"}
            /\ d.status = "pending" => d.approved_suggestion_id = NoId
            /\ d.status = "approved" =>
                  \E j \in 1..Len(d.suggestions) :
                     d.suggestions[j].id = d.approved_suggestion_id

\* C9: the events the generator checks against are the events of the user
\* that overlap [week_start, week_start + 7 days).
C9_EventsOverlappingWeek ==
    \A r \in Requests : Generated(r) =>
        local[r].events =
            {e \in calendar :
                /\ e.start_time < local[r].week_start + 7 * 1440
                /\ e.end_time > local[r].week_start}

\* C10: for a positive duration the scan emits, for every candidate slot
\* (window start plus k hours, ending no later than the window) that is free,
\* one suggestion per nearby store, and nothing else; every returned
\* suggestion lies inside a window listed for its weekday.
C10_SlotsOfWindow ==
    \A r \in Requests :
        (Generated(r) /\ local[r].user_prefs.shopping_duration_minutes > 0) =>
        LET prefs == local[r].user_prefs
            d == prefs.shopping_duration_minutes
            f == local[r].found
            s == local[r].suggestions
            cands == Candidates(prefs, local[r].week_start)
            Of(c, store) ==
                {i \in 1..Len(f) :
                    /\ f[i].suggested_time = c.start
                    /\ f[i].win = c.win
                    /\ f[i].reason = DayOfWeek[c.day_offset + 1]
                    /\ f[i].store = store
                    /\ f[i].duration_minutes = d}
        IN  /\ \A c \in cands : \A store \in {1, 2} :
                  Cardinality(Of(c, store)) = (IF Free(c, d, local[r].events) THEN 1 ELSE 0)
            /\ \A i \in 1..Len(f) :
                  \E c \in cands : \E store \in {1, 2} : i \in Of(c, store)
            /\ \A i \in 1..Len(s) :
                  \E w \in 1..Len(prefs.preferred_hours) :
                     LET ph == prefs.preferred_hours[w]
                         day == (s[i].suggested_time \div 1440) * 1440
                     IN  /\ DayOfWeek[((s[i].suggested_time \div 1440) % 7) + 1] \in ph.days
                         /\ day + ph.start_time[1] * 60 + ph.start_time[2]
                              <= s[i].suggested_time
                         /\ s[i].suggested_time + s[i].duration_minutes
                              <= day + ph.end_time[1] * 60 + ph.end_time[2]

\* A run with a window shorter than the duration and a suggestion whose slot
\* ends at the end of its window, after an earlier slot of that window.
C10_Witness ==
    \E r \in Requests :
        /\ Generated(r)
        /\ local[r].user_prefs.shopping_duration_minutes > 0
        /\ \E w \in 1..Len(local[r].user_prefs.preferred_hours) :
              LET ph == local[r].user_prefs.preferred_hours[w]
              IN  ph.end_time[1] * 60 + ph.end_time[2]
                    - (ph.start_time[1] * 60 + ph.start_time[2])
                    < local[r].user_prefs.shopping_duration_minutes
        /\ \E i \in 1..Len(local[r].found) :
              LET ph == local[r].user_prefs.preferred_hours[local[r].found[i].win]
              IN  /\ (local[r].found[i].suggested_time % 1440)
                       + local[r].found[i].duration_minutes
                       = ph.end_time[1] * 60 + ph.end_time[2]
                  /\ (local[r].found[i].suggested_time % 1440)
                       > ph.start_time[1] * 60 + ph.start_time[2]

=============================================================================
